---- MODULE Spec2Model ----
(***************************************************************************)
(* Model of main.py: the sequential pipeline                               *)
(*   validate configuration -> get_bearer_token -> read .env with          *)
(*   configparser -> (enumerate sections | fetch_api_data -> pick          *)
(*   api_data['record'] -> save_to_excel).                                 *)
(* The two HTTP servers, the .env file and the file system are the         *)
(* environment: their answers are drawn nondeterministically.              *)
(* The interpreter is part of the environment too: the file's first line   *)
(* names python3.12, while configparser's allow_unnamed_section exists     *)
(* from 3.13 on.  requests is taken to be >= 2.27 (JSONDecodeError is a    *)
(* RequestException).                                                      *)
(***************************************************************************)
EXTENDS Integers, Sequences, FiniteSets, TLC

\* ---------------------------------------------------------------- bounds
\* Longest list of records in a JSON value.
MaxRecs == 2
\* Most named sections ([NAME] headers other than [DEFAULT]) in the .env file.
MaxSections == 2

\* ------------------------------------------------------------ JSON values
\* A JSON value (and a Python value parsed from one) is a record with a
\* tag t and one payload per kind: n for a number or string, l for the
\* elements of a list, d for the items of a mapping.  Python's None is the
\* JSON null.  "unset" is a variable that has not been assigned.
Unset == [t |-> "unset", n |-> 0, l |-> <<>>, d |-> <<>>]
Null == [t |-> "null", n |-> 0, l |-> <<>>, d |-> <<>>]
Num(n) == [t |-> "num", n |-> n, l |-> <<>>, d |-> <<>>]
Str(n) == [t |-> "str", n |-> n, l |-> <<>>, d |-> <<>>]
List(s) == [t |-> "list", n |-> 0, l |-> s, d |-> <<>>]
Dict(f) == [t |-> "dict", n |-> 0, l |-> <<>>, d |-> f]
\* A response body that is not JSON: response.json() raises on it.
NotJson == [t |-> "invalid", n |-> 0, l |-> <<>>, d |-> <<>>]

\* isinstance(v, list), isinstance(v, dict), and `k in v` for a mapping v.
IsList(v) == v.t = "list"
IsDict(v) == v.t = "dict"
Has(v, k) == k \in DOMAIN v.d

\* All mappings from a subset of the keys K to values in V.
Maps(K, V) == UNION {[S -> V] : S \in SUBSET K}
\* All sequences over S of length at most k.
SeqUpTo(S, k) == UNION {[1..i -> S] : i \in 0..k}

\* The flat records of the universe: column a holds 1 or 2, column b holds
\* 2 or 3, either may be missing; and the record {"x": 1}.
FlatMaps == {f \in Maps({"a", "b"}, {1, 2, 3}) :
                /\ ("a" \in DOMAIN f => f["a"] \in {1, 2})
                /\ ("b" \in DOMAIN f => f["b"] \in {2, 3})}
              \cup {[k \in {"x"} |-> 1]}
Records == {Dict([k \in DOMAIN f |-> Num(f[k])]) : f \in FlatMaps}
\* Lists of flat records.
RecordLists == {List(s) : s \in SeqUpTo(Records, MaxRecs)}
\* Short lists, as found under a wrapper key.
InnerLists == {List(s) : s \in SeqUpTo({Dict([k \in {"x"} |-> Num(1)])}, MaxRecs)}
\* Mappings that may wrap a list under "data" or "results".
Wrappers == {Dict(f) : f \in Maps({"data", "results", "id"}, InnerLists \cup {Num(1)})}
\* The values the data endpoint may put under "record".
JsonValues == RecordLists \cup Wrappers \cup {Null, Num(1), Str(1)}
\* The bodies the data endpoint may answer with.
DataBodies == {Dict([k \in {"record"} |-> v]) : v \in JsonValues}
                \cup {Dict([k \in {"results"} |-> v]) : v \in InnerLists}
                \cup {Dict(<<>>), List(<<>>), Num(1), NotJson}
\* The bodies the auth endpoint may answer with: a token, no token, a JSON
\* value that is no mapping, and a body that is not JSON.
AuthBodies == {Dict([k \in {"access_token"} |-> Str(1)]), Dict(<<>>), List(<<>>), NotJson}

\* ------------------------------------------------------------ environment
\* The transport exceptions requests.post may raise.
TransportErrors == {"ConnectionError", "Timeout"}
AuthStatuses == {200, 302, 401, 500}
DataStatuses == {200, 201, 302, 401, 500}
\* What requests.post comes back with: a response of some status and body,
\* or a transport exception.
Answers(statuses, bodies) ==
    [transport : {"response"}, status : statuses, body : bodies]
      \cup [transport : TransportErrors, status : {0}, body : {Unset}]
\* The interpreter that runs main.py.
Interpreters == {"3.12", "3.13"}
\* A configuration value: os.getenv gives None, "" or a non-empty string.
EnvValues == {"None", "", "set"}
EnvNames == {"CLIENT_ID", "CLIENT_SECRET", "AUTH_URL", "DATA_URL"}
\* The .env file as configparser sees it: keys before the first header
\* (the unnamed section), a [DEFAULT] header, the number of other headers,
\* whether every line parses, and whether every value interpolates (no
\* stray '%').
EnvFiles == [unnamed : BOOLEAN, default : BOOLEAN, named : 0..MaxSections,
             parses : BOOLEAN, interpolates : BOOLEAN]

VARIABLES
    pc,             \* where main is: validate, auth, config, enumerate, fetch, extract, save, exited
    python,         \* the interpreter's version
    env,            \* CLIENT_ID, CLIENT_SECRET, AUTH_URL, DATA_URL
    envFile,        \* the .env file
    token,          \* main's token
    categories,     \* main's categories = config.sections()
    api_data,       \* main's api_data
    my_records,     \* main's my_records
    records,        \* save_to_excel's records
    df,             \* save_to_excel's DataFrame
    file,           \* api_data.xlsx: <<>> while absent, <<table>> once written
    authResp,       \* the auth endpoint's last answer
    dataResp,       \* the data endpoint's last answer
    authPosts,      \* number of POSTs sent to AUTH_URL
    dataPosts,      \* number of POSTs sent to DATA_URL
    fileWrites,     \* number of times api_data.xlsx was written
    stdout,         \* the lines printed, by kind
    exc,            \* the exception that ended the process, "none" otherwise
    exitStatus      \* the process exit status, -1 while running

vars == <<pc, python, env, envFile, token, categories, api_data, my_records, records, df,
          file, authResp, dataResp, authPosts, dataPosts, fileWrites, stdout, exc,
          exitStatus>>

\* No answer received.
NoResp == [transport |-> "none", status |-> 0, body |-> Unset]
\* pd.DataFrame not built.
NoFrame == [columns |-> {}, rows |-> <<>>]

Init ==
    /\ pc = "validate"
    /\ python \in Interpreters
    /\ env \in [EnvNames -> EnvValues]
    /\ envFile \in EnvFiles
    /\ token = Unset
    /\ categories = <<>>
    /\ api_data = Unset
    /\ my_records = Unset
    /\ records = <<>>
    /\ df = NoFrame
    /\ file = <<>>
    /\ authResp = NoResp
    /\ dataResp = NoResp
    /\ authPosts = 0
    /\ dataPosts = 0
    /\ fileWrites = 0
    /\ stdout = <<>>
    /\ exc = "none"
    /\ exitStatus = -1

\* Mutant of Die: the process ends with status 0.
Die_ExitZero(e, lines) ==
    /\ pc' = "exited"
    /\ exc' = e
    /\ exitStatus' = 0
    /\ stdout' = stdout \o lines

\* sys.exit(1), or an exception nothing catches: the interpreter ends the
\* process with status 1.
Die(e, lines) ==
    /\ pc' = "exited"
    /\ exc' = e
    /\ exitStatus' = 1
    /\ stdout' = stdout \o lines

\* main returns: the interpreter ends the process with status 0.
Return(lines) ==
    /\ pc' = "exited"
    /\ exc' = "none"
    /\ exitStatus' = 0
    /\ stdout' = stdout \o lines

\* Mutant of AllPresent: only None counts as missing, "" passes.
AllPresent_NoneOnly(e) == \A k \in EnvNames : e[k] # "None"

\* all([CLIENT_ID, CLIENT_SECRET, AUTH_URL, DATA_URL]): None and "" are falsy.
AllPresent(e) == \A k \in EnvNames : e[k] \notin {"None", ""}

\* main, lines 128-133.
Validate ==
    /\ pc = "validate"
    /\ IF ~AllPresent(env)
         THEN Die("SystemExit", <<"missing_env">>)
         ELSE /\ pc' = "auth"
              /\ stdout' = stdout \o <<"authenticating">>
              /\ UNCHANGED <<exc, exitStatus>>
    /\ UNCHANGED <<python, env, envFile, token, categories, api_data, my_records, records, df,
                   file, authResp, dataResp, authPosts, dataPosts, fileWrites>>

\* Mutant of RaisesForStatus: only 5xx raises.
RaisesForStatus_ServerOnly(status) == status >= 500 /\ status < 600

\* Response.raise_for_status raises HTTPError for 4xx and 5xx only.
RaisesForStatus(status) == status >= 400 /\ status < 600

\* dict.get('access_token'): the value, or None.
GetAccessToken(token_data) ==
    IF Has(token_data, "access_token") THEN token_data.d["access_token"] ELSE Null

\* get_bearer_token, with main's lines 134-137 after it returns.
GetBearerToken ==
    /\ pc = "auth"
    /\ \E r \in Answers(AuthStatuses, AuthBodies) :
        /\ authResp' = r
        /\ authPosts' = authPosts + 1
        /\ IF r.transport # "response"
             THEN Die("SystemExit", <<"error_token">>) /\ UNCHANGED token
           ELSE IF RaisesForStatus(r.status)
             THEN Die("SystemExit", <<"error_token">>) /\ UNCHANGED token
           ELSE IF r.body = NotJson
             THEN Die("SystemExit", <<"error_token">>) /\ UNCHANGED token
           ELSE IF ~IsDict(r.body)
             THEN Die("AttributeError", <<>>) /\ UNCHANGED token
           ELSE /\ token' = GetAccessToken(r.body)
                /\ pc' = "config"
                /\ stdout' = stdout \o <<"token_received", "fetching">>
                /\ UNCHANGED <<exc, exitStatus>>
    /\ UNCHANGED <<python, env, envFile, categories, api_data, my_records, records, df, file,
                   dataResp, dataPosts, fileWrites>>

\* config.sections() after config.read('.env'): the unnamed section (0) when
\* keys precede the first header, then the named sections 1..named in file
\* order.  [DEFAULT] is never listed.
Sections(f) == (IF f.unnamed THEN <<0>> ELSE <<>>) \o [i \in 1..f.named |-> i]

\* main, lines 138-145: read .env and choose the branch.  Before 3.13
\* ConfigParser(allow_unnamed_section=True) raises TypeError; a line that
\* does not parse makes config.read raise ParsingError; nothing catches either.
LoadConfig ==
    /\ pc = "config"
    /\ IF python = "3.12"
         THEN Die("TypeError", <<>>) /\ UNCHANGED categories
       ELSE IF ~envFile.parses
         THEN Die("ParsingError", <<>>) /\ UNCHANGED categories
         ELSE /\ categories' = Sections(envFile)
              /\ pc' = IF Len(categories') - 1 > 0 THEN "enumerate" ELSE "fetch"
              /\ stdout' = stdout \o <<"configuration_loaded", "sections">>
              /\ UNCHANGED <<exc, exitStatus>>
    /\ UNCHANGED <<python, env, envFile, token, api_data, my_records, records, df, file,
                   authResp, dataResp, authPosts, dataPosts, fileWrites>>

\* The lines one pass of the loop prints for a category; the unnamed section
\* (0) is no str and gets the warning.
CategoryLines(cat) ==
    <<"fetching_for", "installing">> \o (IF cat = 0 THEN <<"warning">> ELSE <<>>)

\* The lines the loop prints for the first k categories.
RECURSIVE LoopLines(_, _)
LoopLines(cats, k) ==
    IF k = 0 THEN <<>> ELSE LoopLines(cats, k - 1) \o CategoryLines(cats[k])

\* main, lines 146-154: the enumeration loop, then main returns.
\* config[cat].items() interpolates every value; a stray '%' raises
\* InterpolationSyntaxError in the pass that reaches it, which nothing catches.
Enumerate ==
    /\ pc = "enumerate"
    /\ IF envFile.interpolates
         THEN Return(LoopLines(categories, Len(categories)))
         ELSE \E k \in 1..Len(categories) :
                 Die("InterpolationSyntaxError",
                     LoopLines(categories, k - 1) \o <<"fetching_for">>)
    /\ UNCHANGED <<python, env, envFile, token, categories, api_data, my_records, records, df,
                   file, authResp, dataResp, authPosts, dataPosts, fileWrites>>

\* The status fetch_api_data accepts without a diagnostic.
HTTP_OK == 200

\* fetch_api_data, lines 80-85: whether the status check raises.  A status
\* other than 200 is reported, then raise_for_status decides.
StatusCheckRaises(status) == status # HTTP_OK /\ RaisesForStatus(status)

\* The lines fetch_api_data prints for a status, lines 80-84.
StatusLines(status) ==
    IF status # HTTP_OK THEN <<"error_status", "response_text", "response_headers">>
    ELSE <<>>

\* fetch_api_data, with main's line 157 after it returns.
FetchApiData ==
    /\ pc = "fetch"
    /\ \E r \in Answers(DataStatuses, DataBodies) :
        /\ dataResp' = r
        /\ dataPosts' = dataPosts + 1
        /\ IF r.transport # "response"
             THEN Die("SystemExit", <<"error_fetching">>) /\ UNCHANGED api_data
           ELSE IF StatusCheckRaises(r.status)
             THEN /\ Die("SystemExit", StatusLines(r.status) \o <<"error_fetching">>)
                  /\ UNCHANGED api_data
           ELSE IF r.body = NotJson
             THEN /\ Die("SystemExit", StatusLines(r.status) \o <<"error_fetching">>)
                  /\ UNCHANGED api_data
           ELSE /\ api_data' = r.body
                /\ pc' = "extract"
                /\ stdout' = stdout \o StatusLines(r.status) \o <<"data_received">>
                /\ UNCHANGED <<exc, exitStatus>>
    /\ UNCHANGED <<python, env, envFile, token, categories, my_records, records, df, file,
                   authResp, authPosts, fileWrites>>

\* `for sub_value in value` works on a list, a mapping and a string.
Iterable(v) == v.t \in {"list", "dict", "str"}

\* main, lines 159-170: walk api_data.items(), then take api_data['record'].
ExtractRecords ==
    /\ pc = "extract"
    /\ IF ~IsDict(api_data)
         THEN Die("AttributeError", <<>>) /\ UNCHANGED my_records
       ELSE IF Has(api_data, "record") /\ ~Iterable(api_data.d["record"])
         THEN Die("TypeError", <<>>) /\ my_records' = api_data.d["record"]
       ELSE IF ~Has(api_data, "record")
         THEN Die("KeyError", <<>>) /\ UNCHANGED my_records
       ELSE /\ my_records' = api_data.d["record"]
            /\ pc' = "save"
            /\ stdout' = stdout \o <<"saving">>
            /\ UNCHANGED <<exc, exitStatus>>
    /\ UNCHANGED <<python, env, envFile, token, categories, api_data, records, df, file,
                   authResp, dataResp, authPosts, dataPosts, fileWrites>>

\* Mutant of ResolveRecords: "results" is tried before "data".
ResolveRecords_ResultsFirst(data) ==
    IF IsList(data) THEN data.l
    ELSE IF IsDict(data) THEN
        IF Has(data, "results") /\ IsList(data.d["results"]) THEN data.d["results"].l
        ELSE IF Has(data, "data") /\ IsList(data.d["data"]) THEN data.d["data"].l
        ELSE <<data>>
    ELSE <<>>

\* save_to_excel, lines 101-111: the record list of a JSON value.
ResolveRecords(data) ==
    IF IsList(data) THEN data.l
    ELSE IF IsDict(data) THEN
        IF Has(data, "data") /\ IsList(data.d["data"]) THEN data.d["data"].l
        ELSE IF Has(data, "results") /\ IsList(data.d["results"]) THEN data.d["results"].l
        ELSE <<data>>
    ELSE <<>>

\* Mutant of DataFrame: the columns are the first record's keys only.
DataFrame_FirstRecordColumns(recs) ==
    LET cols == DOMAIN recs[1].d
    IN [columns |-> cols,
        rows |-> [i \in 1..Len(recs) |->
                    [c \in cols |-> IF Has(recs[i], c) THEN <<recs[i].d[c]>> ELSE <<>>]]]

\* pd.DataFrame(records) for a list of mappings: one row per record in
\* order, the columns are the union of the keys, a cell is <<value>> or,
\* where the record has no such key, the blank <<>> (NaN).
DataFrame(recs) ==
    LET cols == UNION {DOMAIN recs[i].d : i \in 1..Len(recs)}
    IN [columns |-> cols,
        rows |-> [i \in 1..Len(recs) |->
                    [c \in cols |-> IF Has(recs[i], c) THEN <<recs[i].d[c]>> ELSE <<>>]]]

\* Mutant of NoRecords: the empty list is not noticed.
NoRecords_Never(recs) == FALSE

\* `if not records`, line 113.
NoRecords(recs) == Len(recs) = 0

\* Mutant of CatchAndReport: the exception leaves save_to_excel and main.
CatchAndReport_Propagate == Die("Exception", <<>>)

\* save_to_excel, lines 124-125: `except Exception` prints the error, and
\* the function and then main return.
CatchAndReport == Return(<<"error_saving">>)

\* save_to_excel(data=my_records), then main returns.  pd.DataFrame and
\* df.to_excel may raise (a shape pandas rejects, a cell openpyxl cannot
\* convert, the disk, a missing engine); the function catches every
\* Exception and reports it.
SaveToExcel ==
    /\ pc = "save"
    /\ records' = ResolveRecords(my_records)
    /\ IF NoRecords(records')
         THEN /\ Return(<<"no_records">>)
              /\ UNCHANGED <<df, file, fileWrites>>
         ELSE \E outcome \in {"written", "frame_error", "write_error"} :
                 IF outcome = "written"
                   THEN /\ df' = DataFrame(records')
                        /\ file' = <<df'>>
                        /\ fileWrites' = fileWrites + 1
                        /\ Return(<<"success">>)
                 ELSE IF outcome = "write_error"
                   THEN /\ df' = DataFrame(records')
                        /\ CatchAndReport
                        /\ UNCHANGED <<file, fileWrites>>
                 ELSE /\ CatchAndReport
                      /\ UNCHANGED <<df, file, fileWrites>>
    /\ UNCHANGED <<python, env, envFile, token, categories, api_data, my_records, authResp,
                   dataResp, authPosts, dataPosts>>

Next ==
    \/ Validate
    \/ GetBearerToken
    \/ LoadConfig
    \/ Enumerate
    \/ FetchApiData
    \/ ExtractRecords
    \/ SaveToExcel

Spec == Init /\ [][Next]_vars

\* ------------------------------------------------------------------ claims
\* A line of this kind was printed.
Printed(line) == \E i \in DOMAIN stdout : stdout[i] = line

\* Some required configuration value is None or empty.
SomeConfigMissing == \E k \in EnvNames : env[k] = "None" \/ env[k] = ""

\* save_to_excel was called and has returned.
SaveRan == pc = "exited" /\ Printed("saving")

\* The example values of the specification.
RecX1 == Dict([k \in {"x"} |-> Num(1)])
RecA1 == Dict([k \in {"a"} |-> Num(1)])
RecA2B3 == Dict([k \in {"a", "b"} |-> IF k = "a" THEN Num(2) ELSE Num(3)])

\* C1: when one of CLIENT_ID, CLIENT_SECRET, AUTH_URL, DATA_URL is absent or
\* empty, the run never leaves validation except to exit with a non-zero
\* status, and neither the auth POST nor the data POST is ever sent.
C1_MissingConfigExitsWithoutNetwork ==
    SomeConfigMissing =>
        /\ pc \in {"validate", "exited"}
        /\ (pc = "exited" => exitStatus # 0 /\ Printed("missing_env"))
        /\ authPosts = 0
        /\ dataPosts = 0

\* C1 witness: only DATA_URL is empty and the process has exited with status 1.
C1_Witness ==
    /\ pc = "exited"
    /\ env["DATA_URL"] = ""
    /\ \A k \in EnvNames \ {"DATA_URL"} : env[k] = "set"
    /\ exitStatus = 1

\* The auth POST got no response, or a response whose status is not 2xx.
AuthNot2xx ==
    \/ authResp.transport \in {"ConnectionError", "Timeout"}
    \/ authResp.transport = "response" /\ authResp.status \notin 200..299

\* The auth POST got no response, or a response whose status is 4xx or 5xx.
AuthError ==
    \/ authResp.transport \in {"ConnectionError", "Timeout"}
    \/ authResp.transport = "response" /\ authResp.status \in 400..599

\* What follows a failed authentication: the process has exited non-zero
\* after one auth POST, with no data POST and no file.
HaltedAtAuth ==
    /\ pc = "exited"
    /\ exitStatus # 0
    /\ authPosts = 1
    /\ dataPosts = 0
    /\ file = <<>>

\* C2 as stated: a network error, a timeout or any non-2xx status of the auth
\* POST ends the process non-zero with no data fetch, no file and no retry.
C2_Original == AuthNot2xx => HaltedAtAuth

\* C2 amended: a network error, a timeout or a 4xx/5xx status of the auth POST
\* ends the process non-zero with no data fetch, no file and no retry.
C2_AuthErrorHalts == AuthError => HaltedAtAuth

\* C2 witness: the auth endpoint answered 401 and the process exited with 1.
C2_Witness ==
    /\ authResp.transport = "response"
    /\ authResp.status = 401
    /\ pc = "exited"
    /\ exitStatus = 1
    /\ Printed("error_token")

\* C3 as stated: every data response whose status is not 200 is reported
\* (status, body, headers) and ends the process non-zero: nothing is returned
\* to main and no file is written.
C3_Non200Exits ==
    (dataResp.transport = "response" /\ dataResp.status # 200) =>
        /\ Printed("error_status")
        /\ Printed("response_text")
        /\ Printed("response_headers")
        /\ pc = "exited"
        /\ exitStatus # 0
        /\ api_data = Unset
        /\ file = <<>>

\* C4 as stated: save_to_excel resolves a list to itself, else a mapping's
\* "data" list, else its "results" list, else wraps the whole value, whatever
\* the value is.
C4_Original ==
    SaveRan =>
        LET data == my_records
            dataIsList == IsDict(data) /\ "data" \in DOMAIN data.d
                            /\ data.d["data"].t = "list"
            resultsIsList == IsDict(data) /\ "results" \in DOMAIN data.d
                               /\ data.d["results"].t = "list"
        IN /\ (data.t = "list" => records = data.l)
           /\ (dataIsList => records = data.d["data"].l)
           /\ (~dataIsList /\ resultsIsList => records = data.d["results"].l)
           /\ (data.t # "list" /\ ~dataIsList /\ ~resultsIsList => records = <<data>>)

\* C4 amended: as stated, except that rule 4 wraps a mapping only; a value
\* that is neither a list nor a mapping resolves to the empty record list.
C4_ShapeResolution ==
    SaveRan =>
        LET data == my_records
            dataIsList == data.t = "dict" /\ "data" \in DOMAIN data.d
                            /\ data.d["data"].t = "list"
            resultsIsList == data.t = "dict" /\ "results" \in DOMAIN data.d
                               /\ data.d["results"].t = "list"
        IN /\ (data.t = "list" => records = data.l)
           /\ (dataIsList => records = data.d["data"].l)
           /\ (~dataIsList /\ resultsIsList => records = data.d["results"].l)
           /\ (data.t = "dict" /\ ~dataIsList /\ ~resultsIsList => records = <<data>>)
           /\ (data.t \notin {"list", "dict"} => records = <<>>)
           /\ (data = Dict([k \in {"results"} |-> List(<<RecX1>>)]) => records = <<RecX1>>)

\* C4 witness: "data" and "results" both hold a list and "data" won.
C4_Witness ==
    /\ SaveRan
    /\ my_records = Dict([k \in {"data", "results"} |->
                            IF k = "data" THEN List(<<RecX1>>) ELSE List(<<RecX1, RecX1>>)])
    /\ records = <<RecX1>>

\* C5: when the resolved record list is empty, save_to_excel prints the
\* "no records" notice and returns without building a table or writing a
\* file; a file is written only from a non-empty record list.
C5_EmptyWritesNothing ==
    /\ (SaveRan /\ records = <<>> =>
            /\ Printed("no_records")
            /\ file = <<>>
            /\ fileWrites = 0
            /\ df = NoFrame
            /\ exc = "none"
            /\ exitStatus = 0)
    /\ (file # <<>> => records # <<>> /\ ~Printed("no_records"))

\* C5 witness: the matched "results" key held an empty list.
C5_Witness ==
    /\ SaveRan
    /\ my_records.t = "dict"
    /\ "results" \in DOMAIN my_records.d
    /\ my_records.d["results"] = List(<<>>)
    /\ records = <<>>
    /\ Printed("no_records")

\* The data endpoint answered 200 with this body.
DataAnswered(body) ==
    /\ dataResp.transport = "response"
    /\ dataResp.status = 200
    /\ dataResp.body = body

\* C6 as stated: with configuration present and authentication done, a 200
\* answer {"results": []} ends the run with no file and exit status 0.
C6_Original ==
    (pc = "exited" /\ DataAnswered(Dict([k \in {"results"} |-> List(<<>>)]))) =>
        file = <<>> /\ exitStatus = 0

\* The enumeration loop ran to its end.
EnumerationCompleted == pc = "exited" /\ Printed("fetching_for") /\ exc = "none"

\* C6 amended: a 200 answer {"record": []} ends the run with no file and exit
\* status 0.  The exit status is 0 exactly when main returned, after
\* save_to_excel or after the enumeration loop, and is 1 otherwise: on missing
\* configuration, on an authentication or fetch failure, and on an exception
\* main does not catch (building the parser, reading .env, or a response that
\* is no mapping with an iterable "record").
C6_ExitStatus ==
    /\ (pc = "exited" /\ DataAnswered(Dict([k \in {"record"} |-> List(<<>>)])) =>
            file = <<>> /\ exitStatus = 0)
    /\ (pc = "exited" => (exitStatus = 0 <=> (SaveRan \/ EnumerationCompleted)))
    /\ (pc = "exited" /\ exitStatus # 0 =>
            /\ exitStatus = 1
            /\ \/ SomeConfigMissing /\ authPosts = 0
               \/ authPosts = 1 /\ token = Unset /\ dataPosts = 0
               \/ authPosts = 1 /\ dataPosts = 0
                    /\ exc \in {"TypeError", "ParsingError", "InterpolationSyntaxError"}
               \/ dataPosts = 1 /\ api_data = Unset
               \/ dataPosts = 1 /\ api_data # Unset
                    /\ exc \in {"AttributeError", "TypeError", "KeyError"}
                    /\ ~(api_data.t = "dict" /\ "record" \in DOMAIN api_data.d
                           /\ api_data.d["record"].t \in {"list", "dict", "str"}))

\* C6 witness: the answer was 200 {"record": []} and the process exited 0
\* after the "no records" notice.
C6_Witness ==
    /\ pc = "exited"
    /\ DataAnswered(Dict([k \in {"record"} |-> List(<<>>)]))
    /\ Printed("no_records")
    /\ exitStatus = 0

\* C7: an exception inside save_to_excel is reported and swallowed: the
\* function returns and the process exits 0, as after every call of
\* save_to_excel.
C7_SaveErrorsSwallowed ==
    /\ (Printed("saving") /\ pc = "exited" => exitStatus = 0 /\ exc = "none")
    /\ (Printed("error_saving") => pc = "exited" /\ exitStatus = 0 /\ exc = "none")
    /\ (SaveRan /\ records # <<>> /\ file = <<>> => Printed("error_saving"))

\* C7 witness: writing failed on a non-empty record list and the exit status is 0.
C7_Witness ==
    /\ SaveRan
    /\ records # <<>>
    /\ Printed("error_saving")
    /\ file = <<>>
    /\ exitStatus = 0

\* C8: after a 200 answer {"record": [r1..rN]}, N >= 1, of flat mappings, the
\* written table has N rows in the records' order, its columns are the union
\* of the records' keys, and row i holds ri's value under each key ri has and
\* a blank under every other column.
C8_TableOfRecords ==
    (/\ file # <<>>
     /\ dataResp.status = 200
     /\ dataResp.body.t = "dict"
     /\ "record" \in DOMAIN dataResp.body.d
     /\ dataResp.body.d["record"].t = "list") =>
        LET rs == dataResp.body.d["record"].l
            table == file[1]
        IN /\ Len(rs) >= 1
           /\ Len(table.rows) = Len(rs)
           /\ table.columns = UNION {DOMAIN rs[i].d : i \in 1..Len(rs)}
           /\ \A i \in 1..Len(rs) :
                /\ DOMAIN table.rows[i] = table.columns
                /\ \A c \in table.columns :
                     IF c \in DOMAIN rs[i].d
                       THEN table.rows[i][c] = <<rs[i].d[c]>>
                       ELSE table.rows[i][c] = <<>>

\* C8 witness: {"record": [{"a": 1}, {"a": 2, "b": 3}]} gave columns {a, b},
\* two rows, row 2 with a = 2 and b = 3, row 1 with a = 1 and b blank.
C8_Witness ==
    /\ DataAnswered(Dict([k \in {"record"} |-> List(<<RecA1, RecA2B3>>)]))
    /\ file # <<>>
    /\ file[1].columns = {"a", "b"}
    /\ Len(file[1].rows) = 2
    /\ file[1].rows[1]["a"] = <<Num(1)>>
    /\ file[1].rows[1]["b"] = <<>>
    /\ file[1].rows[2]["a"] = <<Num(2)>>
    /\ file[1].rows[2]["b"] = <<Num(3)>>

\* C9 as stated: at most one auth POST, one data POST and one file write; the
\* data POST only after get_bearer_token returned; the file only after the
\* data POST returned status 200; a failed authentication or fetch halts the
\* run.
C9_StagesGate ==
    /\ authPosts <= 1
    /\ dataPosts <= 1
    /\ fileWrites <= 1
    /\ (dataPosts >= 1 => authPosts = 1 /\ authResp.transport = "response"
                            /\ token # Unset)
    /\ (fileWrites >= 1 => dataPosts = 1 /\ dataResp.transport = "response"
                             /\ dataResp.status = 200)
    /\ (AuthError => pc = "exited" /\ dataPosts = 0 /\ fileWrites = 0)
    /\ (dataResp.transport \in {"ConnectionError", "Timeout"} =>
            pc = "exited" /\ fileWrites = 0)

\* C10 as stated, a section being one configparser lists: the enumeration
\* branch and the fetch/save flow exclude each other; the enumeration runs
\* exactly when .env has more than one section, and such a run sends no data
\* POST, writes no file and exits 0; the fetch runs exactly when .env has at
\* most one section.
C10_EnumerationInert ==
    (pc = "exited" /\ Printed("configuration_loaded")) =>
        /\ ~(Printed("fetching_for") /\ dataPosts > 0)
        /\ (Printed("fetching_for") <=> Len(categories) > 1)
        /\ (dataPosts > 0 <=> Len(categories) <= 1)
        /\ (Printed("fetching_for") =>
                dataPosts = 0 /\ file = <<>> /\ authPosts = 1 /\ exitStatus = 0)

====
